---- MODULE Spec2Model ----
(***************************************************************************)
(* Model of src/src/algorithm.ts: schedule() places tasks one after the    *)
(* other into the recurring weekly windows of their Schedule.              *)
(*                                                                         *)
(* Time is local wall-clock time in whole minutes.  An instant (a Date) is *)
(* the number of minutes since midnight of day 0; day 0 has day-of-week 0. *)
(* The calendar is scaled: a day has MinutesPerDay minutes, a week         *)
(* DaysPerWeek days and a year DaysPerYear days.                           *)
(***************************************************************************)
EXTENDS Integers, Sequences, FiniteSets, TLC

\* ---------------------------------------------------------------- bounds
MinutesPerDay == 4
DaysPerWeek == 2
MaxTasks == 3
MaxDuration == 2
MaxWindows == 2
MaxRuns == 2

\* The year of the search bound, scaled to one week.
DaysPerYear == DaysPerWeek

\* ---------------------------------------------------------------- dates
\* An absent Date (undefined): scheduledStartDate, scheduledEndDate and
\* lastEndTime are optional.  Every instant of the model is >= 0.
None == -1

\* Date.getFullYear/getMonth/getDate taken together: the calendar day.
DayOf(t) == t \div MinutesPerDay
\* Date.getHours() * 60 + Date.getMinutes()
MinuteOfDay(t) == t % MinutesPerDay
\* Date.getDay()
getDay(t) == DayOf(t) % DaysPerWeek
\* A search bound one day past the year.
PlusOneYearAndADay(t) == t + (DaysPerYear + 1) * MinutesPerDay
\* Date.setFullYear(getFullYear() + 1)
PlusOneYear(t) == t + DaysPerYear * MinutesPerDay
\* NextMidnight without setDate(getDate() + 1): midnight of the same day.
NextMidnightSameDay(t) == (t \div MinutesPerDay) * MinutesPerDay
\* Date.setDate(getDate() + 1); Date.setHours(0, 0, 0, 0)
NextMidnight(t) == (DayOf(t) + 1) * MinutesPerDay
\* Date.setHours(floor(m / 60), m % 60, 0, 0) on the day of t
AtMinute(t, m) == DayOf(t) * MinutesPerDay + m

isSameDay(date1, date2) == DayOf(date1) = DayOf(date2)

\* ---------------------------------------------------------------- types
TimeRanges ==
    { r \in [startMinutes : 0..(MinutesPerDay - 1), endMinutes : 0..(MinutesPerDay - 1)] :
        r.startMinutes < r.endMinutes }

Windows == [dayOfWeek : 0..(DaysPerWeek - 1), timeRange : TimeRanges]

SeqsUpTo(S, n) == UNION { [1..k -> S] : k \in 0..n }

NOT_STARTED == "NOT_STARTED"
IN_PROGRESS == "IN_PROGRESS"
COMPLETED == "COMPLETED"

Statuses == {NOT_STARTED, IN_PROGRESS, COMPLETED}

\* ---------------------------------------------------------------- helpers
\* An absent Schedule: the undefined that Array.prototype.find returns.
NoSlot == [id |-> "undefined", slots |-> <<>>]

\* An absent placement: the undefined that getNextAvailableTime returns.
NoFit == [start |-> None, end |-> None]

\* Array.prototype.sort with (a, b) => a.timeRange.startMinutes -
\* b.timeRange.startMinutes: ascending by startMinutes, stable.
RECURSIVE InsertByStart(_, _)
InsertByStart(d, s) ==
    IF s = <<>> THEN <<d>>
    ELSE IF d.timeRange.startMinutes < Head(s).timeRange.startMinutes
         THEN <<d>> \o s
         ELSE <<Head(s)>> \o InsertByStart(d, Tail(s))

RECURSIVE SortByStart(_)
SortByStart(s) ==
    IF s = <<>> THEN <<>>
    ELSE InsertByStart(s[Len(s)], SortByStart(SubSeq(s, 1, Len(s) - 1)))

\* ---------------------------------------------------------------- algorithm
\* slots.find((slot) => slot.id === task.scheduleId): the first match.
RECURSIVE findSlotForTask(_, _)
findSlotForTask(task, slots) ==
    IF slots = <<>> THEN NoSlot
    ELSE IF Head(slots).id = task.scheduleId THEN Head(slots)
    ELSE findSlotForTask(task, Tail(slots))

\* lastEndMinutes of getAvailableDurationsForDate
lastEndMinutesOn(date, lastEndTime) ==
    IF lastEndTime # None /\ isSameDay(date, lastEndTime)
    THEN MinuteOfDay(lastEndTime)
    ELSE 0

\* A second filter that drops every window begun before lastEndMinutes.
keepsUnstartedOnly(d, lastEndMinutes) ==
    IF d.timeRange.endMinutes <= lastEndMinutes THEN FALSE
    ELSE d.timeRange.startMinutes >= lastEndMinutes

\* The second filter of getAvailableDurationsForDate.
keepsDuration(d, lastEndMinutes) ==
    IF d.timeRange.endMinutes <= lastEndMinutes THEN FALSE
    ELSE IF d.timeRange.startMinutes < lastEndMinutes
         THEN d.timeRange.endMinutes - lastEndMinutes > 0
         ELSE TRUE

getAvailableDurationsForDate(date, slot, lastEndTime) ==
    LET dayOfWeek == getDay(date)
        lastEndMinutes == lastEndMinutesOn(date, lastEndTime)
        onDay == SelectSeq(slot.slots, LAMBDA d : d.dayOfWeek = dayOfWeek)
        kept == SelectSeq(onDay, LAMBDA d : keepsDuration(d, lastEndMinutes))
    IN  SortByStart(kept)

\* candidateStart without start.setHours(...): the time of day of the day
\* being searched is kept.
candidateStartUnset(currentDate, duration, lastEndTime) ==
    IF /\ lastEndTime # None
       /\ isSameDay(currentDate, lastEndTime)
       /\ duration.timeRange.startMinutes < MinuteOfDay(lastEndTime)
    THEN lastEndTime
    ELSE currentDate

\* candidateStart without the same-day continuation: always the window's
\* nominal start.
candidateStartNominal(currentDate, duration, lastEndTime) ==
    AtMinute(currentDate, duration.timeRange.startMinutes)

\* The start tried for one duration (window) of the current day.
candidateStart(currentDate, duration, lastEndTime) ==
    IF /\ lastEndTime # None
       /\ isSameDay(currentDate, lastEndTime)
       /\ duration.timeRange.startMinutes < MinuteOfDay(lastEndTime)
    THEN lastEndTime
    ELSE AtMinute(currentDate, duration.timeRange.startMinutes)

\* candidateEnd as end.setMinutes(taskDuration): the start's minutes dropped.
candidateEndSetMinutes(start, taskDuration) == AtMinute(start, taskDuration)

\* end.setMinutes(end.getMinutes() + taskDuration)
candidateEnd(start, taskDuration) == start + taskDuration

\* "Check if the task fits within this duration": the minute-of-day of the
\* end against the window's endMinutes.
fitsDuration(end, duration) == MinuteOfDay(end) <= duration.timeRange.endMinutes

\* The for loop over the durations of one day: the first that fits.
RECURSIVE tryDurations(_, _, _, _)
tryDurations(currentDate, durations, taskDuration, lastEndTime) ==
    IF durations = <<>> THEN NoFit
    ELSE LET duration == Head(durations)
             start == candidateStart(currentDate, duration, lastEndTime)
             end == candidateEnd(start, taskDuration)
         IN  IF fitsDuration(end, duration)
             THEN [start |-> start, end |-> end]
             ELSE tryDurations(currentDate, Tail(durations), taskDuration, lastEndTime)

\* The while loop over the days, from currentDate to endDate inclusive.
RECURSIVE searchDays(_, _, _, _, _)
searchDays(currentDate, endDate, slot, taskDuration, lastEndTime) ==
    IF ~(currentDate <= endDate) THEN NoFit
    ELSE LET durations == getAvailableDurationsForDate(currentDate, slot, lastEndTime)
             found == tryDurations(currentDate, durations, taskDuration, lastEndTime)
         IN  IF found # NoFit THEN found
             ELSE searchDays(NextMidnight(currentDate), endDate, slot,
                             taskDuration, lastEndTime)

\* The number of times the body of the while loop runs when no day yields a
\* placement, counted up to fuel + 1: the loop from currentDate to endDate
\* with the step that moves to the next day.
RECURSIVE daysExamined(_, _, _)
daysExamined(currentDate, endDate, fuel) ==
    IF ~(currentDate <= endDate) THEN 0
    ELSE IF fuel = 0 THEN 1
    ELSE 1 + daysExamined(NextMidnight(currentDate), endDate, fuel - 1)

\* A search that always starts at the origin.
searchStartAtOrigin(date, lastEndTime) == date

\* Where the search starts: the cursor if it is after the origin.
searchStart(date, lastEndTime) ==
    IF lastEndTime # None /\ lastEndTime > date THEN lastEndTime ELSE date

getNextAvailableTime(date, slot, taskDuration, lastEndTime) ==
    searchDays(searchStart(date, lastEndTime), PlusOneYear(date), slot,
               taskDuration, lastEndTime)

\* canTaskFitInSlot with the feasibility check left out.
canTaskFitInSlotAlways(task, slot) == TRUE

canTaskFitInSlot(task, slot) ==
    \E k \in 1..Len(slot.slots) :
        slot.slots[k].timeRange.endMinutes - slot.slots[k].timeRange.startMinutes
            >= task.duration

\* isCompleted that also skips a task that already carries dates.
isCompletedOrScheduled(t) == t.status = COMPLETED \/ t.scheduledStartDate # None

\* isCompleted that skips nothing.
isCompletedNever(t) == FALSE

\* "if (task.status === TaskStatus.COMPLETED) continue"
isCompleted(t) == t.status = COMPLETED

\* commits without the comparison against options.endDate.
commitsAnyFit(nextTime, opts) == nextTime # NoFit

\* "if (nextTime && nextTime.end <= options.endDate)"
commits(nextTime, opts) == nextTime # NoFit /\ nextTime.end <= opts.endDate

\* nextCursor with the assignment hoisted out of the if statement: the cursor
\* follows every placement found.
nextCursorHoisted(nextTime, opts, cursor) ==
    IF nextTime # NoFit THEN nextTime.end ELSE cursor

\* lastEndTime after the if statement that commits: assigned inside it only.
nextCursor(nextTime, opts, cursor) ==
    IF commits(nextTime, opts) THEN nextTime.end ELSE cursor

\* The task after the if statement that commits: written inside it only.
nextTask(t, nextTime, opts) ==
    IF commits(nextTime, opts)
    THEN [t EXCEPT !.scheduledStartDate = nextTime.start,
                   !.scheduledEndDate = nextTime.end]
    ELSE t

\* One iteration of the for loop of schedule() on task t with the cursor
\* given: the task and the cursor after it, and the way the iteration took.
loopBody(t, sl, opts, cursor) ==
    IF isCompleted(t)
    THEN [task |-> t, lastEndTime |-> cursor, branch |-> "completed"]
    ELSE LET slot == findSlotForTask(t, sl)
         IN  IF slot = NoSlot
             THEN [task |-> t, lastEndTime |-> cursor, branch |-> "noSlot"]
             ELSE IF ~canTaskFitInSlot(t, slot)
             THEN [task |-> t, lastEndTime |-> cursor, branch |-> "tooLong"]
             ELSE LET nextTime == getNextAvailableTime(opts.startDate, slot,
                                                       t.duration, cursor)
                  IN  [task |-> nextTask(t, nextTime, opts),
                       lastEndTime |-> nextCursor(nextTime, opts, cursor),
                       branch |-> IF commits(nextTime, opts) THEN "commit"
                                  ELSE "leave"]

\* schedule() as a function: the Task records of the result, from position k
\* on with the cursor given.
RECURSIVE scheduleFrom(_, _, _, _, _)
scheduleFrom(ts, k, sl, opts, cursor) ==
    IF k > Len(ts) THEN ts
    ELSE LET r == loopBody(ts[k], sl, opts, cursor)
         IN  scheduleFrom([ts EXCEPT ![k] = r.task], k + 1, sl, opts, r.lastEndTime)

scheduleAll(ts, sl, opts) == scheduleFrom(ts, 1, sl, opts, None)

\* ---------------------------------------------------------------- state
VARIABLES
    slots,        \* the Schedule[] argument of schedule()
    options,      \* the ScheduleOptions argument: startDate, endDate
    tasks,        \* the caller's Task objects, in the order of the Task[] argument
    result,       \* const result = [...tasks]: references to those same objects
    pos,          \* position of the for loop in result
    lastEndTime,  \* the cursor: end of the last committed task, or None
    pc,           \* "loop" inside schedule(), "done" after it returned
    run,          \* which call of schedule() this is
    given,        \* the Task records as they were when this call started
    committed,    \* positions committed by this call, in commit order
    searched,     \* positions for which this call ran getNextAvailableTime
    earlier       \* positions committed by the call before this one

vars == <<slots, options, tasks, result, pos, lastEndTime, pc, run, given,
          committed, searched, earlier>>

\* A copy that leaves out the tasks already completed.
spreadLiveOnly(ts) ==
    SelectSeq([k \in 1..Len(ts) |-> k], LAMBDA k : ts[k].status # COMPLETED)

\* const result = [...tasks]: a new array that holds, position by position,
\* references to the caller's task objects.  A reference is the index of the
\* object in tasks; the code neither reads nor writes a task's id, the object
\* is its identity.
spreadCopy(ts) == [k \in 1..Len(ts) |-> k]

\* Dates left on a task by an earlier run against another horizon.
StaleStart == 100 * MinutesPerDay
StaleEnd == StaleStart + 1

Task(duration, scheduleId, status) ==
    [duration |-> duration, scheduleId |-> scheduleId, status |-> status,
     scheduledStartDate |-> None, scheduledEndDate |-> None]

\* The Tasks of a first call: not started or completed, without dates.  The
\* code reads neither the duration nor the scheduleId of a COMPLETED task,
\* nor the duration of a task whose scheduleId is unknown: these take one
\* value.
FreshTasks(ids, unknown) ==
    { Task(d, id, NOT_STARTED) : d \in 1..MaxDuration, id \in ids }
        \cup { Task(1, id, NOT_STARTED) : id \in unknown }
        \cup { Task(1, "A", COMPLETED) }

\* The same Tasks some time after an earlier run: each carries the dates of
\* that run, and those not completed are in progress.
Rescheduled(ts) ==
    [k \in 1..Len(ts) |->
        [ts[k] EXCEPT !.scheduledStartDate = StaleStart,
                      !.scheduledEndDate = StaleEnd,
                      !.status = IF @ = NOT_STARTED THEN IN_PROGRESS ELSE @]]

Schedule(id, windows) == [id |-> id, slots |-> windows]

\* Horizons: startDate on day 0 at midnight or later, endDate a whole number
\* of days after it, up to one day past the one-year search bound.
Horizons(starts) ==
    { [startDate |-> s, endDate |-> s + d * MinutesPerDay] :
        s \in starts, d \in 1..(DaysPerYear + 1) }

\* A Schedule's entries are an unordered collection: each collection of up to
\* n distinct windows is listed once, later windows first, so that the
\* resolver's sort has work to do.
WindowKey(w) ==
    (w.dayOfWeek * MinutesPerDay + w.timeRange.startMinutes) * MinutesPerDay
        + w.timeRange.endMinutes
WindowLists(n) ==
    { ws \in SeqsUpTo(Windows, n) :
        \A k \in 1..(Len(ws) - 1) : WindowKey(ws[k]) > WindowKey(ws[k + 1]) }

OneDay(h) == h.endDate = h.startDate + MinutesPerDay
PastTheYear(h) == h.endDate = h.startDate + (DaysPerYear + 1) * MinutesPerDay

\* One Schedule "A" of up to MaxWindows windows; tasks refer to it or to the
\* unknown "B".  Fresh tasks under every horizon, rescheduled tasks under the
\* horizons of one day.
InitOneSchedule ==
    /\ \E ws \in WindowLists(MaxWindows) : slots = <<Schedule("A", ws)>>
    /\ \E h \in Horizons(0..1) :
       \E ts \in SeqsUpTo(FreshTasks({"A"}, {"B"}), MaxTasks) :
          /\ options = h
          /\ \/ tasks = ts
             \/ OneDay(h) /\ tasks = Rescheduled(ts)

\* Two Schedules "A" and "B" of one window each, a horizon that starts at
\* midnight and ends after the search bound, and fresh tasks that refer to
\* both Schedules.
InitTwoSchedules ==
    /\ \E wa \in Windows : \E wb \in Windows :
          slots = <<Schedule("A", <<wa>>), Schedule("B", <<wb>>)>>
    /\ options \in { h \in Horizons({0}) : PastTheYear(h) }
    /\ tasks \in { ts \in SeqsUpTo(FreshTasks({"A", "B"}, {}), MaxTasks) :
                     \A id \in {"A", "B"} :
                        \E k \in 1..Len(ts) :
                            ts[k].scheduleId = id /\ ts[k].status # COMPLETED }

Init ==
    /\ InitOneSchedule \/ InitTwoSchedules
    /\ result = spreadCopy(tasks)
    /\ pos = 1
    /\ lastEndTime = None
    /\ pc = "loop"
    /\ run = 1
    /\ given = tasks
    /\ committed = <<>>
    /\ searched = {}
    /\ earlier = <<>>

\* A resolver that sorts the Schedule's own list before it filters.
slotSortedInPlace(slot) == [slot EXCEPT !.slots = SortByStart(@)]

\* What a search leaves of the Schedule it was given: slot.slots.filter(...)
\* returns a new array, and .filter(...).sort(...) sorts that array.
slotAfterSearch(slot) == slot

\* What a search leaves of the Horizon: new Date(date) and new Date(endDate)
\* are copies, and setTime, setDate, setHours and setFullYear are called on
\* the copies.
optionsAfterSearch(opts) == opts

\* The Schedules after the search of a task: the one the task refers to has
\* been through the search.
slotsAfterSearch(sl, t) ==
    [k \in 1..Len(sl) |->
        IF sl[k] = findSlotForTask(t, sl) THEN slotAfterSearch(sl[k]) ELSE sl[k]]

\* The for loop is at a task: the iteration it is about to run.
InLoop == pc = "loop" /\ pos <= Len(result)
iteration == loopBody(tasks[result[pos]], slots, options, lastEndTime)

\* if (task.status === TaskStatus.COMPLETED) continue
skipCompleted ==
    /\ InLoop
    /\ iteration.branch = "completed"
    /\ pos' = pos + 1
    /\ UNCHANGED <<slots, options, tasks, result, lastEndTime, pc, run, given,
                   committed, searched, earlier>>

\* if (!slot) continue
skipNoSlot ==
    /\ InLoop
    /\ iteration.branch = "noSlot"
    /\ pos' = pos + 1
    /\ UNCHANGED <<slots, options, tasks, result, lastEndTime, pc, run, given,
                   committed, searched, earlier>>

\* if (!canTaskFitInSlot(task, slot)) continue
skipTooLong ==
    /\ InLoop
    /\ iteration.branch = "tooLong"
    /\ pos' = pos + 1
    /\ UNCHANGED <<slots, options, tasks, result, lastEndTime, pc, run, given,
                   committed, searched, earlier>>

\* The search found a placement ending by options.endDate: the task object
\* is written in place and the cursor moves.
commit ==
    /\ InLoop
    /\ LET r == iteration
       IN  /\ r.branch = "commit"
           /\ tasks' = [tasks EXCEPT ![result[pos]] = r.task]
           /\ lastEndTime' = r.lastEndTime
    /\ committed' = Append(committed, pos)
    /\ searched' = searched \cup {pos}
    /\ pos' = pos + 1
    /\ slots' = slotsAfterSearch(slots, tasks[result[pos]])
    /\ options' = optionsAfterSearch(options)
    /\ UNCHANGED <<result, pc, run, given, earlier>>

\* The search found no placement, or one ending after options.endDate.
leaveUnscheduled ==
    /\ InLoop
    /\ LET r == iteration
       IN  /\ r.branch = "leave"
           /\ tasks' = [tasks EXCEPT ![result[pos]] = r.task]
           /\ lastEndTime' = r.lastEndTime
    /\ searched' = searched \cup {pos}
    /\ pos' = pos + 1
    /\ slots' = slotsAfterSearch(slots, tasks[result[pos]])
    /\ options' = optionsAfterSearch(options)
    /\ UNCHANGED <<result, pc, run, given, committed, earlier>>

\* return result
return ==
    /\ pc = "loop"
    /\ pos > Len(result)
    /\ pc' = "done"
    /\ UNCHANGED <<slots, options, tasks, result, pos, lastEndTime, run, given,
                   committed, searched, earlier>>

\* The caller calls schedule() again with the returned tasks and the same
\* Schedules and Horizon.
scheduleAgain ==
    /\ pc = "done"
    /\ run < MaxRuns
    /\ run' = run + 1
    /\ given' = [k \in 1..Len(result) |-> tasks[result[k]]]
    /\ tasks' = [k \in 1..Len(result) |-> tasks[result[k]]]
    /\ result' = spreadCopy(tasks')
    /\ pos' = 1
    /\ lastEndTime' = None
    /\ earlier' = committed
    /\ committed' = <<>>
    /\ searched' = {}
    /\ pc' = "loop"
    /\ UNCHANGED <<slots, options>>

Next ==
    \/ skipCompleted
    \/ skipNoSlot
    \/ skipTooLong
    \/ commit
    \/ leaveUnscheduled
    \/ return
    \/ scheduleAgain

Spec == Init /\ [][Next]_vars

\* ---------------------------------------------------------------- claims
\* The task object at a position of the result, and its dates.
TaskAt(p) == tasks[result[p]]
StartOf(p) == TaskAt(p).scheduledStartDate
EndOf(p) == TaskAt(p).scheduledEndDate
Positions == 1..Len(result)
Committed == { committed[k] : k \in 1..Len(committed) }
Dates(t) == <<t.scheduledStartDate, t.scheduledEndDate>>

\* The windows of the Schedule a task refers to.
WindowsOf(t) ==
    LET s == findSlotForTask(t, slots)
    IN  { s.slots[k] : k \in 1..Len(s.slots) }

\* A placement lies within one instance of window w: on one calendar day of
\* w's day-of-week, between w's startMinutes and endMinutes.
Within(start, end, w) ==
    /\ DayOf(start) = DayOf(end)
    /\ getDay(start) = w.dayOfWeek
    /\ w.timeRange.startMinutes <= MinuteOfDay(start)
    /\ MinuteOfDay(start) <= w.timeRange.endMinutes
    /\ w.timeRange.startMinutes <= MinuteOfDay(end)
    /\ MinuteOfDay(end) <= w.timeRange.endMinutes

\* C1: every committed task starts and ends within one window instance of
\* its Schedule: same calendar day, the window's day-of-week, both minutes of
\* day inside [startMinutes, endMinutes]; never past the window's end, never
\* across midnight.
C1_WithinOneWindow ==
    \A p \in Committed :
        \E w \in WindowsOf(TaskAt(p)) : Within(StartOf(p), EndOf(p), w)

\* C2: of two tasks committed consecutively by one call (tasks that were not
\* committed skipped), the later starts no earlier than the earlier ends.
C2_NoOverlapInOrder ==
    \A k \in 2..Len(committed) :
        StartOf(committed[k]) >= EndOf(committed[k - 1])

\* Two commits with a task between them that was not committed, the two in
\* different Schedules.
C2_Witness ==
    /\ pc = "done"
    /\ \E k \in 2..Len(committed) :
          /\ committed[k] > committed[k - 1] + 1
          /\ TaskAt(committed[k]).scheduleId # TaskAt(committed[k - 1]).scheduleId

\* C3: no committed task starts before options.startDate, whatever the
\* time of day of startDate.
C3_NotBeforeStartDate ==
    \A p \in Committed : StartOf(p) >= options.startDate

\* C4: every task committed by the call ends by options.endDate.
C4_EndsByEndDate ==
    \A p \in Committed : EndOf(p) # None /\ EndOf(p) <= options.endDate

\* A task committed with its end exactly at options.endDate, and another
\* that was searched and not committed.
C4_Witness ==
    /\ pc = "done"
    /\ \E p \in Committed : EndOf(p) = options.endDate
    /\ searched \ Committed # {}

\* C5: a committed task's end minus its start is its duration, at a window's
\* nominal start and at the cursor inside a partially consumed window alike.
C5_DurationKept ==
    \A p \in Committed : EndOf(p) - StartOf(p) = TaskAt(p).duration

\* A commit that starts at the previous commit's end, strictly inside a
\* window of its Schedule.
C5_Witness ==
    \E k \in 2..Len(committed) :
        /\ StartOf(committed[k]) = EndOf(committed[k - 1])
        /\ \E w \in WindowsOf(TaskAt(committed[k])) :
              /\ Within(StartOf(committed[k]), EndOf(committed[k]), w)
              /\ w.timeRange.startMinutes < MinuteOfDay(StartOf(committed[k]))

\* The cursor with which the k-th commit of this call was searched.
CursorBefore(k) == IF k = 1 THEN None ELSE EndOf(committed[k - 1])

SetMin(S) == CHOOSE x \in S : \A y \in S : x <= y

\* The starts at which a task of the given duration lies entirely inside a
\* window of ws, over the days from the search start to the one-year bound:
\* on each day the later of the window's start and a same-day cursor.
FittingStarts(ws, duration, cursor) ==
    LET from == IF cursor # None /\ cursor > options.startDate
                THEN cursor ELSE options.startDate
        days == DayOf(from)..DayOf(PlusOneYear(options.startDate))
        At(d, w) ==
            IF /\ cursor # None
               /\ DayOf(cursor) = d
               /\ MinuteOfDay(cursor) > w.timeRange.startMinutes
            THEN cursor
            ELSE d * MinutesPerDay + w.timeRange.startMinutes
        Fits(d, w) ==
            /\ w.dayOfWeek = d % DaysPerWeek
            /\ At(d, w) + duration <= d * MinutesPerDay + w.timeRange.endMinutes
    IN  { At(q[1], q[2]) : q \in { r \in days \X ws : Fits(r[1], r[2]) } }

\* C6: the start committed for a task is the earliest start, over the days
\* of the search and the windows of its Schedule, at which the task fits
\* entirely inside the window.
C6_EarliestFit ==
    \A k \in 1..Len(committed) :
        LET t == TaskAt(committed[k])
            S == FittingStarts(WindowsOf(t), t.duration, CursorBefore(k))
        IN  S # {} /\ StartOf(committed[k]) = SetMin(S)

\* The positions of given that hold a task that is not COMPLETED, in order.
RECURSIVE LivePositions(_)
LivePositions(n) ==
    IF n = 0 THEN <<>>
    ELSE IF given[n].status = COMPLETED THEN LivePositions(n - 1)
    ELSE Append(LivePositions(n - 1), n)

\* C7: a COMPLETED task keeps the dates it was given, and once the call has
\* returned every other task has the dates of a call on the input without
\* the COMPLETED tasks.
C7_CompletedPassThrough ==
    /\ \A p \in Positions :
          given[p].status = COMPLETED => Dates(TaskAt(p)) = Dates(given[p])
    /\ pc = "done" =>
          LET live == LivePositions(Len(given))
              alone == scheduleAll([j \in 1..Len(live) |-> given[live[j]]],
                                   slots, options)
          IN  \A j \in 1..Len(live) : Dates(alone[j]) = Dates(TaskAt(live[j]))

\* A COMPLETED task that carries dates, between two committed tasks.
C7_Witness ==
    /\ pc = "done"
    /\ \E p \in Positions :
          /\ given[p].status = COMPLETED
          /\ given[p].scheduledStartDate # None
          /\ \E a \in Committed : a < p
          /\ \E b \in Committed : b > p

\* The cursor is the end of the last task this call committed.
CursorIsLastCommit ==
    lastEndTime = IF committed = <<>> THEN None ELSE EndOf(committed[Len(committed)])

\* C8: a task whose search found nothing, or a fit ending after
\* options.endDate, keeps the dates it was given, and the cursor stays the
\* end of the last committed task.
C8_FailureLeavesAll ==
    /\ \A p \in searched \ Committed : Dates(TaskAt(p)) = Dates(given[p])
    /\ CursorIsLastCommit

\* A task with dates whose search failed, after a committed task and before
\* a task committed right at the end of that earlier commit.
C8_Witness ==
    /\ pc = "done"
    /\ \E k \in 2..Len(committed) :
          /\ \E p \in searched \ Committed :
                /\ committed[k - 1] < p
                /\ p < committed[k]
                /\ given[p].scheduledStartDate # None
          /\ StartOf(committed[k]) = EndOf(committed[k - 1])

\* The scheduleId of t matches no Schedule.
UnknownSchedule(t) == \A k \in 1..Len(slots) : slots[k].id # t.scheduleId
\* The duration of t exceeds the span of every window of its Schedule.
LongerThanEveryWindow(t) ==
    /\ ~UnknownSchedule(t)
    /\ \A w \in WindowsOf(t) :
          w.timeRange.endMinutes - w.timeRange.startMinutes < t.duration

\* C9: a task that is not COMPLETED and whose scheduleId is unknown, or
\* whose duration exceeds every window of its Schedule, is never searched
\* nor committed and keeps the dates it was given.
C9_UnschedulableSkipped ==
    \A p \in Positions :
        (/\ given[p].status # COMPLETED
         /\ UnknownSchedule(given[p]) \/ LongerThanEveryWindow(given[p]))
        => /\ p \notin searched
           /\ p \notin Committed
           /\ Dates(TaskAt(p)) = Dates(given[p])

\* A task with an unknown scheduleId and a task too long for its Schedule,
\* both carrying dates, passed over before a task is committed.
C9_Witness ==
    /\ pc = "done"
    /\ \E p \in Positions : \E q \in Positions : \E c \in Committed :
          /\ given[p].status # COMPLETED /\ UnknownSchedule(given[p])
          /\ given[q].status # COMPLETED /\ LongerThanEveryWindow(given[q])
          /\ given[p].scheduledStartDate # None
          /\ p < c /\ q < c

\* C10: a call on the output of the call before, with the same Schedules and
\* Horizon, commits the same tasks and leaves every task with the dates it
\* came in with.
C10_Idempotent ==
    (run > 1 /\ pc = "done") =>
        /\ committed = earlier
        /\ \A p \in Positions : Dates(TaskAt(p)) = Dates(given[p])

\* A second call that has committed two tasks and left one uncommitted.
C10_Witness ==
    /\ run > 1
    /\ pc = "done"
    /\ Len(committed) >= 2
    /\ searched \ Committed # {}

\* The instant one year after options.startDate.
YearBound == options.startDate + DaysPerYear * MinutesPerDay

\* The instant the search of the task at pos starts from.
SearchOrigin ==
    IF lastEndTime # None /\ lastEndTime > options.startDate
    THEN lastEndTime ELSE options.startDate

\* The search of the task the loop is at runs its day loop at most
\* DaysPerYear + 1 times, each time on a later day; the loop position is
\* within the list or one past it, and at a task one of the branches of the
\* loop body applies.
SearchBounded ==
    /\ InLoop =>
          /\ daysExamined(SearchOrigin, YearBound, DaysPerYear + 1) <= DaysPerYear + 1
          /\ \A t \in SearchOrigin..YearBound : NextMidnight(t) > t
          /\ iteration.branch \in {"completed", "noSlot", "tooLong", "commit", "leave"}
    /\ pos <= Len(result) + 1

\* C11: schedule() terminates: every search runs its day loop at most
\* DaysPerYear + 1 times, each time on a later day and never past one year
\* after options.startDate, also when no day of the Schedule has a window;
\* and every step of a call moves the loop to the next task or returns.
C11_Terminates ==
    /\ []SearchBounded
    /\ [][pc = "loop" => pos' = pos + 1 \/ (pos > Len(result) /\ pc' = "done")]_vars

\* The loop is at a task whose search runs through every day left up to the
\* year bound, more than one, and finds no placement.
C11_Witness ==
    /\ InLoop
    /\ iteration.branch = "leave"
    /\ LET t == tasks[result[pos]]
       IN  getNextAvailableTime(options.startDate, findSlotForTask(t, slots),
                                t.duration, lastEndTime) = NoFit
    /\ daysExamined(SearchOrigin, YearBound, DaysPerYear + 1) > 1

\* C12: the output has the length and the order of the input: position i of
\* the result holds the task of position i of the input, with the duration,
\* scheduleId and status it came with; none is created, dropped or moved,
\* and the tasks are processed in that order.
C12_SameTasksSameOrder ==
    /\ Len(result) = Len(given)
    /\ \A i \in 1..Len(result) :
          /\ result[i] = i
          /\ TaskAt(i).duration = given[i].duration
          /\ TaskAt(i).scheduleId = given[i].scheduleId
          /\ TaskAt(i).status = given[i].status
    /\ \A j \in 1..Len(committed) : \A k \in 1..Len(committed) :
          j < k => committed[j] < committed[k]
    /\ \A p \in Committed \cup searched : p < pos

\* A call has returned three tasks: a completed one first, then one it left
\* without dates, then one it committed.
C12_Witness ==
    /\ pc = "done"
    /\ Len(result) = 3
    /\ TaskAt(1).status = COMPLETED
    /\ 2 \notin Committed
    /\ committed = <<3>>

\* C13: no step of schedule() changes the caller's Schedules (the entries of
\* the window lists, their order and their bounds) or the Horizon
\* (options.startDate and options.endDate).
C13_InputsNotMutated == [][slots' = slots /\ options' = options]_vars

\* A call has returned after a search that committed on a day where the
\* Schedule lists two windows, the later one first, and after a search that
\* found nothing.
C13_Witness ==
    /\ pc = "done"
    /\ searched \ Committed # {}
    /\ \E p \in Committed :
          LET ws == findSlotForTask(TaskAt(p), slots).slots
          IN  /\ Len(ws) = 2
              /\ ws[1].dayOfWeek = getDay(StartOf(p))
              /\ ws[2].dayOfWeek = getDay(StartOf(p))
              /\ ws[1].timeRange.startMinutes > ws[2].timeRange.startMinutes

\* C14: schedule() does not write to the caller's task objects: each still
\* holds the dates it had when the call started, the new dates being on the
\* returned records only.
C14_TasksNotMutated ==
    \A k \in 1..Len(tasks) : Dates(tasks[k]) = Dates(given[k])

\* The windows of task t's Schedule that have begun before the cursor on the
\* cursor's day, and the room the cursor leaves in one of them.
BegunBefore(cursor, t) ==
    { w \in WindowsOf(t) :
        /\ w.dayOfWeek = DayOf(cursor) % DaysPerWeek
        /\ w.timeRange.startMinutes < cursor % MinutesPerDay }
RoomAfter(cursor, w) == w.timeRange.endMinutes - (cursor % MinutesPerDay)

\* The nominal starts, at the cursor or later, of the windows of t's Schedule
\* that are long enough for t.
NominalFits(cursor, t) ==
    { q \in cursor..(YearBound + MinutesPerDay) :
        \E w \in WindowsOf(t) :
            /\ w.dayOfWeek = (q \div MinutesPerDay) % DaysPerWeek
            /\ w.timeRange.startMinutes = q % MinutesPerDay
            /\ w.timeRange.endMinutes - w.timeRange.startMinutes >= t.duration }

\* The k-th commit follows the rule of continuation and rollover.
ContinuesOrRolls(k) ==
    LET cursor == EndOf(committed[k - 1])
        t == TaskAt(committed[k])
        begun == BegunBefore(cursor, t)
    IN  /\ (\E w \in begun : RoomAfter(cursor, w) >= t.duration)
              => t.scheduledStartDate = cursor
        /\ (begun # {} /\ \A w \in begun : RoomAfter(cursor, w) < t.duration)
              => /\ t.scheduledStartDate \in NominalFits(cursor, t)
                 /\ \A q \in NominalFits(cursor, t) : t.scheduledStartDate <= q

\* C15: when a window of the task's Schedule has begun before the cursor on
\* the cursor's day, the task starts exactly at the cursor if the room left,
\* endMinutes minus the cursor's minute, is at least its duration; when the
\* previous task ended at the window's end or the room left is too small,
\* the window is not used and the task starts at the nominal startMinutes of
\* the next window that fits, later that day or on a later day.
C15_ContinuationAndRollover ==
    \A k \in 2..Len(committed) : ContinuesOrRolls(k)

\* The entries of a window list that the resolver is to return for a date and
\* a cursor: those of the date's day-of-week that end after the cursor's
\* minute if the cursor is on the date's day, after minute 0 otherwise.
Resolvable(ws, date, cursor) ==
    LET floor == IF cursor # None
                    /\ cursor \div MinutesPerDay = date \div MinutesPerDay
                 THEN cursor % MinutesPerDay ELSE 0
    IN  { k \in 1..Len(ws) :
            /\ ws[k].dayOfWeek = (date \div MinutesPerDay) % DaysPerWeek
            /\ ws[k].timeRange.endMinutes > floor }

\* The resolver's answer for one Schedule, date and cursor is as specified.
ResolvesExactly(slot, date, cursor) ==
    LET out == getAvailableDurationsForDate(date, slot, cursor)
        expected == Resolvable(slot.slots, date, cursor)
    IN  /\ Len(out) = Cardinality(expected)
        /\ { out[j] : j \in 1..Len(out) } = { slot.slots[k] : k \in expected }
        /\ \A j \in 1..(Len(out) - 1) :
              out[j].timeRange.startMinutes <= out[j + 1].timeRange.startMinutes

\* C16: for every Schedule, every date up to the search bound and the cursor
\* of the call, the Window Resolver returns exactly the entries whose
\* dayOfWeek is the date's and whose endMinutes is after lastEndMinutes (the
\* cursor's minute if the cursor is on that day, else 0), in ascending order
\* of startMinutes and each with its own startMinutes and endMinutes, also
\* when the cursor is inside it.
C16_ResolverExact ==
    \A k \in 1..Len(slots) : \A date \in 0..(YearBound + MinutesPerDay) :
        ResolvesExactly(slots[k], date, lastEndTime)

\* The cursor stands on a day for which a Schedule lists a window it has
\* used up and a window it is inside of: the resolver returns the second,
\* whole, and not the first.
C16_Witness ==
    /\ lastEndTime # None
    /\ \E k \in 1..Len(slots) :
          LET ws == slots[k].slots
              out == getAvailableDurationsForDate(lastEndTime, slots[k], lastEndTime)
          IN  /\ Len(ws) = 2
              /\ \E i \in 1..2 :
                    /\ ws[i].dayOfWeek = getDay(lastEndTime)
                    /\ ws[3 - i].dayOfWeek = getDay(lastEndTime)
                    /\ ws[i].timeRange.endMinutes = MinuteOfDay(lastEndTime)
                    /\ ws[3 - i].timeRange.startMinutes < MinuteOfDay(lastEndTime)
                    /\ ws[3 - i].timeRange.endMinutes > MinuteOfDay(lastEndTime)
                    /\ out = <<ws[3 - i]>>

\* The instant from which the k-th commit of this call was searched.
OriginBefore(k) ==
    IF k > 1 /\ CursorBefore(k) > options.startDate
    THEN CursorBefore(k) ELSE options.startDate

\* C17: the Next-Fit Search examines the days from the search start (the
\* cursor if it is after options.startDate, else options.startDate) up to
\* the day exactly one year after options.startDate and none after it: no
\* committed task starts on a day before the search start's or after the
\* year bound's, and a task whose cursor is already past options.startDate
\* plus one year is not committed, whatever options.endDate allows.
C17_SearchWithinOneYear ==
    /\ \A k \in 1..Len(committed) :
          /\ StartOf(committed[k]) \div MinutesPerDay
                >= OriginBefore(k) \div MinutesPerDay
          /\ StartOf(committed[k]) \div MinutesPerDay
                <= YearBound \div MinutesPerDay
          /\ k > 1 => CursorBefore(k) <= YearBound
    /\ InLoop /\ lastEndTime # None /\ lastEndTime > YearBound
          => iteration.branch # "commit"

\* A call has returned with a task committed on the day of the year bound,
\* which moved the cursor past the bound, and a later task left without
\* dates although a window of its Schedule, long enough for it, begins at
\* the cursor or later and ends by options.endDate.
C17_Witness ==
    /\ pc = "done"
    /\ lastEndTime # None /\ lastEndTime > YearBound
    /\ \E p \in Committed :
          StartOf(p) \div MinutesPerDay = YearBound \div MinutesPerDay
    /\ \E q \in searched \ Committed :
          /\ \A p \in Committed : p < q
          /\ \E s \in lastEndTime..options.endDate :
                /\ s \in NominalFits(lastEndTime, TaskAt(q))
                /\ s + TaskAt(q).duration <= options.endDate

\* The instant is the nominal start of a window of task t's Schedule on the
\* instant's day of the week.
NominalStart(q, t) ==
    \E w \in WindowsOf(t) :
        /\ w.dayOfWeek = (q \div MinutesPerDay) % DaysPerWeek
        /\ w.timeRange.startMinutes = q % MinutesPerDay

\* C18: every committed scheduledStartDate is the nominal startMinutes of a
\* window of the task's Schedule on that day's day-of-week, or exactly the
\* scheduledEndDate of the task committed before it.
C18_StartNominalOrCursor ==
    \A k \in 1..Len(committed) :
        \/ NominalStart(StartOf(committed[k]), TaskAt(committed[k]))
        \/ k > 1 /\ StartOf(committed[k]) = EndOf(committed[k - 1])

\* A call has committed one task at a window's nominal start away from the
\* cursor, and another at the cursor, where no window of its Schedule starts.
C18_Witness ==
    /\ \E k \in 1..Len(committed) :
          /\ NominalStart(StartOf(committed[k]), TaskAt(committed[k]))
          /\ k > 1 => StartOf(committed[k]) # EndOf(committed[k - 1])
    /\ \E k \in 2..Len(committed) :
          /\ StartOf(committed[k]) = EndOf(committed[k - 1])
          /\ ~NominalStart(StartOf(committed[k]), TaskAt(committed[k]))

\* A sequence without its p-th element, and the position that the j-th
\* element of the shorter sequence had.
Without(seq, p) == [j \in 1..(Len(seq) - 1) |-> IF j < p THEN seq[j] ELSE seq[j + 1]]
PositionIn(j, p) == IF j < p THEN j ELSE j + 1

\* C19: a task the call did not commit (COMPLETED, unknown scheduleId, longer
\* than every window, no fit, or a fit ending after options.endDate) has no
\* effect on the others: a call on the input without it gives every
\* remaining task the dates this call gave it.
C19_UncommittedHasNoEffect ==
    pc = "done" =>
        \A p \in Positions \ Committed :
            LET out == scheduleAll(Without(given, p), slots, options)
            IN  \A j \in 1..Len(out) :
                    Dates(out[j]) = Dates(TaskAt(PositionIn(j, p)))

\* A call has returned with a task it searched for and did not commit
\* between two tasks it committed.
C19_Witness ==
    /\ pc = "done"
    /\ \E p \in searched \ Committed :
          /\ \E a \in Committed : a < p
          /\ \E c \in Committed : c > p

\* Two windows share a minute of the same day of the week.
Overlapping(v, w) ==
    /\ v.dayOfWeek = w.dayOfWeek
    /\ v.timeRange.startMinutes < w.timeRange.endMinutes
    /\ w.timeRange.startMinutes < v.timeRange.endMinutes

\* C20: no minute is given to two tasks: the intervals from
\* scheduledStartDate to scheduledEndDate, the end excluded, of any two
\* committed tasks are disjoint, whatever windows and Schedules they came by.
C20_NoMinuteTwice ==
    \A p \in Committed : \A q \in Committed :
        p # q => EndOf(p) <= StartOf(q) \/ EndOf(q) <= StartOf(p)

\* Two tasks are committed on the same day, each inside both of two distinct
\* overlapping windows, of one Schedule or of two.
C20_Witness ==
    \E p \in Committed : \E q \in Committed :
        /\ p # q
        /\ \E j \in 1..Len(slots) : \E k \in 1..Len(slots) :
           \E a \in 1..Len(slots[j].slots) : \E b \in 1..Len(slots[k].slots) :
              LET v == slots[j].slots[a]
                  w == slots[k].slots[b]
              IN  /\ <<j, a>> # <<k, b>>
                  /\ Overlapping(v, w)
                  /\ slots[j].id = TaskAt(p).scheduleId
                  /\ slots[k].id = TaskAt(q).scheduleId
                  /\ Within(StartOf(p), EndOf(p), v)
                  /\ Within(StartOf(p), EndOf(p), w)
                  /\ Within(StartOf(q), EndOf(q), v)
                  /\ Within(StartOf(q), EndOf(q), w)

====
